---------------------------- MODULE Spec2Model ----------------------------
(***************************************************************************)
(* A model of the ao3.nl preview service: the chapters grammar parser and  *)
(* the metadata extraction of src/src/ao3/meta.rs, and the cache-backed    *)
(* request handlers and the router of src/src/main.rs.                     *)
(*                                                                         *)
(* Text that the code takes apart character by character (the chapters and *)
(* the words fields) is a sequence of one-character strings; text that the *)
(* code only copies (title, author, date, tags) is an opaque string.       *)
(***************************************************************************)
EXTENDS Integers, Sequences, FiniteSets, TLC

VARIABLES
    \* ---- the serving gate (main.rs: work_response and the moka cache)
    cache,          \* the Cache<u64, WorkMetadata>: a function from cached ids to metadata
    pc,             \* per request task: "idle", "fetching", "inserting", "done", "abandoned"
    req,            \* per task: the request it handles (id, path, bot)
    held,           \* per task: the WorkMetadata the task holds (None before it has one)
    resp,           \* per task: the response sent (None before)
    fetchIn,        \* per task: what the transport returned to it (None before)
    rendered,       \* per task: whether templating and minifying succeeded (None before)
    fetched,        \* per task: TRUE once the task has called WorkMetadata::work
    looked,         \* per task: TRUE once the task has called work_cache.get
    startedAfter,   \* per task: the tasks that had already responded when it started
    gen,            \* per id: how many times the id has been evicted so far
    genAtStart,     \* per task: gen[id] when the task looked the id up
    genAtGet,       \* per task: gen[id] when the task got its metadata (hit or insert)
    writers,        \* per id: the tasks that inserted under the id, in the order of the writes
    \* ---- the chapters grammar parser (meta.rs: chapter, chapters)
    input,          \* the text handed to the parser
    parsed,         \* the parser's result (None before it ran)
    \* ---- the extraction (meta.rs: WorkMetadata::work)
    doc,            \* the fetched document, as what each selector finds in it
    defects,        \* how many fields of the document were altered
    extracted,      \* the result of the extraction (None before it ran)
    \* ---- the embed descriptor (meta.rs: From<WorkMetadata>; main.rs: the Router)
    emeta,          \* the WorkMetadata handed to the Response Composer
    embedUrl,       \* the URL requested from the service (None before)
    dispatched      \* the handler the router chose and what it extracted (None before)

serveVars == <<cache, pc, req, held, resp, fetchIn, rendered, fetched, looked,
               startedAfter, gen, genAtStart, genAtGet, writers>>
parserVars == <<input, parsed>>
extractVars == <<doc, defects, extracted>>
embedVars == <<emeta, embedUrl, dispatched>>
vars == <<serveVars, parserVars, extractVars, embedVars>>

\* An optional value (Rust's Option, or a result not there yet): a sequence of
\* no element, or of one.
None == <<>>
Some(v) == <<v>>
IsSome(o) == o # <<>>
Get(o) == o[1]

(***************************************************************************)
(* Bounds of the model.                                                    *)
(***************************************************************************)
NumTasks == 2       \* request tasks, each handling one request
MaxEvictions == 1   \* evictions from the cache
MaxLen == 6         \* length of a text handed to the parser
MaxDefects == 3     \* fields of the well-formed document that are altered

(***************************************************************************)
(* Program constants.                                                      *)
(***************************************************************************)
U16Max == 65535     \* the largest u16, the type `chapter` parses into

---------------------------------------------------------------------------
(***************************************************************************)
(* Characters and numerals.                                                *)
(***************************************************************************)
DigitChars == {"0", "1", "2", "3", "4", "5", "6", "7", "8", "9"}

IsDigit(c) == c \in DigitChars

DigitVal(c) ==
    CASE c = "0" -> 0 [] c = "1" -> 1 [] c = "2" -> 2 [] c = "3" -> 3
      [] c = "4" -> 4 [] c = "5" -> 5 [] c = "6" -> 6 [] c = "7" -> 7
      [] c = "8" -> 8 [] c = "9" -> 9

Ok(v) == [ok |-> TRUE, value |-> v]
Err(e) == [ok |-> FALSE, error |-> e]

\* The length of the longest prefix of s made of digits.
RECURSIVE DigitPrefixLen(_)
DigitPrefixLen(s) ==
    IF s = <<>> \/ ~IsDigit(Head(s)) THEN 0 ELSE 1 + DigitPrefixLen(Tail(s))

\* nom's digit1: one or more ASCII digits; Err::Error when there is none.
\* Ok carries <<the rest of the input, the digits recognized>>.
digit1(s) ==
    LET n == DigitPrefixLen(s)
    IN  IF n = 0 THEN Err("Digit")
        ELSE Ok(<<SubSeq(s, n + 1, Len(s)), SubSeq(s, 1, n)>>)

\* str::parse for an unsigned integer of the given maximum, on a run of digits:
\* the accumulator is multiplied and added to digit by digit, each step checked
\* (checked_mul, checked_add); -1 stands for the overflow error.
RECURSIVE ParseDigitsFrom(_, _, _)
ParseDigitsFrom(acc, ds, max) ==
    IF ds = <<>> THEN acc
    ELSE IF acc > (max - DigitVal(Head(ds))) \div 10 THEN -1
    ELSE ParseDigitsFrom(acc * 10 + DigitVal(Head(ds)), Tail(ds), max)


\* The value of a run of digits, as a number (no width).
RECURSIVE DigitsValue(_)
DigitsValue(ds) ==
    IF ds = <<>> THEN 0
    ELSE DigitsValue(SubSeq(ds, 1, Len(ds) - 1)) * 10 + DigitVal(ds[Len(ds)])

---------------------------------------------------------------------------
(***************************************************************************)
(* The chapters grammar parser (meta.rs, chapter and chapters).            *)
(***************************************************************************)

\* map_res(recognize(digit1), str::parse): the digits, parsed as a u16; a value
\* that does not fit is the parser's error, like no digit at all.
chapter(s) ==
    LET d == digit1(s)
    IN  IF ~d.ok THEN d
        ELSE LET v == ParseDigitsFrom(0, d.value[2], U16Max)
             IN  IF v < 0 THEN Err("MapRes") ELSE Ok(<<d.value[1], v>>)

\* bytes::complete::tag("/")
tagSlash(s) ==
    IF s # <<>> /\ Head(s) = "/" THEN Ok(<<Tail(s), <<"/">>>>) ELSE Err("Tag")

\* opt(chapter): the parser's error becomes an absent value, nothing consumed.
optChapter(s) ==
    LET c == chapter(s)
    IN  IF c.ok THEN Ok(<<c.value[1], Some(c.value[2])>>) ELSE Ok(<<s, None>>)

\* chapters: chapter, "/", opt(chapter).  Ok carries <<rest, <<chapter, total>>>>.
chapters(s) ==
    LET c == chapter(s)
    IN  IF ~c.ok THEN c
        ELSE LET t == tagSlash(c.value[1])
             IN  IF ~t.ok THEN t
                 ELSE LET o == optChapter(t.value[1])
                      IN  Ok(<<o.value[1], <<c.value[2], o.value[2]>>>>)

\* A plausible slip: the rest of the input is not looked at.
parseChapters_anyRest(s) ==
    LET r == chapters(s)
    IN  IF r.ok THEN Ok(r.value[2]) ELSE Err("ParsingError")

\* The match of WorkMetadata::work on the parser's result: only a result that
\* left nothing of the input is taken; everything else is the ParsingError.
parseChapters(s) ==
    LET r == chapters(s)
    IN  IF r.ok /\ r.value[1] = <<>> THEN Ok(r.value[2]) ELSE Err("ParsingError")

\* The characters the parser is tried on: digits, the separator, a letter.
Alphabet == {"0", "1", "5", "9", "/", "a"}



---------------------------------------------------------------------------
(***************************************************************************)
(* The parser on its own: every text over Alphabet of at most MaxLen       *)
(* characters is built and handed to it.                                   *)
(***************************************************************************)
ServeIdle ==
    /\ cache = <<>>
    /\ pc = <<>> /\ req = <<>> /\ held = <<>> /\ resp = <<>>
    /\ fetchIn = <<>> /\ rendered = <<>>
    /\ fetched = <<>> /\ looked = <<>> /\ startedAfter = <<>>
    /\ gen = <<>> /\ genAtStart = <<>> /\ genAtGet = <<>> /\ writers = <<>>

ParserIdle == input = <<>> /\ parsed = None

ExtractIdle == doc = <<>> /\ defects = 0 /\ extracted = None

EmbedIdle == emeta = <<>> /\ embedUrl = None /\ dispatched = None

InitParser ==
    /\ input = <<>>
    /\ parsed = None
    /\ ServeIdle /\ ExtractIdle /\ EmbedIdle

\* The text grows by one character of Alphabet.
Type(c) ==
    /\ parsed = None
    /\ Len(input) < MaxLen
    /\ input' = Append(input, c)
    /\ UNCHANGED <<parsed, serveVars, extractVars, embedVars>>

\* The parser is applied to the text.
Parse ==
    /\ parsed = None
    /\ parsed' = Some(parseChapters(input))
    /\ UNCHANGED <<input, serveVars, extractVars, embedVars>>

NextParser ==
    \/ \E c \in Alphabet : Type(c)
    \/ Parse

SpecParser == InitParser /\ [][NextParser]_vars

\* The grammar as the specification words it: one or more digits, a "/", then
\* zero or more digits, and nothing else.  i is the place of the separator.
SeparatorAt(s, i) ==
    /\ i \in 2..Len(s)
    /\ s[i] = "/"
    /\ \A j \in 1..Len(s) : j # i => IsDigit(s[j])

Grammatical(s) == \E i \in 1..Len(s) : SeparatorAt(s, i)

ChapterDigits(s) == SubSeq(s, 1, DigitPrefixLen(s))
TotalDigits(s) == SubSeq(s, DigitPrefixLen(s) + 2, Len(s))

\* What the grammar says the result is.
GrammarValue(s) ==
    <<DigitsValue(ChapterDigits(s)),
      IF TotalDigits(s) = <<>> THEN None ELSE Some(DigitsValue(TotalDigits(s)))>>

FitsU16(s) ==
    /\ DigitsValue(ChapterDigits(s)) <= U16Max
    /\ DigitsValue(TotalDigits(s)) <= U16Max

---------------------------------------------------------------------------
(***************************************************************************)
(* The extraction (meta.rs, WorkMetadata::work).                           *)
(*                                                                         *)
(* A document is what each of the code's selectors finds in it: None when  *)
(* the selector matches nothing, else the first match.  The fields scoped  *)
(* to the metadata block (and, for the last three, to the stats block in   *)
(* it) are read only when that block was found.                            *)
(***************************************************************************)
Fields == {"meta", "stats", "title", "author", "rating", "warning", "category",
           "fandom", "relationship", "character", "freeform",
           "published", "words", "chapters"}

\* The work identifiers requested.
Ids == {1, 2}

\* A document with every field present and well-formed.
GoodDoc ==
    [f \in Fields |->
        CASE f = "meta" -> Some("dl.work")
          [] f = "stats" -> Some("dl.stats")
          [] f = "title" -> Some("Title A")
          [] f = "author" -> Some([text |-> "Jane", href |-> Some("/users/Jane")])
          [] f = "rating" -> Some(<<"General Audiences">>)
          [] f = "warning" -> Some(<<"No Archive Warnings Apply">>)
          [] f = "category" -> Some(<<"Gen">>)
          [] f = "fandom" -> Some(<<"A", "B", "C">>)
          [] f = "relationship" -> Some(<<"X/Y">>)
          [] f = "character" -> Some(<<"X", "Y">>)
          [] f = "freeform" -> Some(<<"Fluff">>)
          [] f = "published" -> Some("2024-01-01")
          [] f = "words" -> Some(<<"1", "2", ",", "3", "4", "5">>)
          [] f = "chapters" -> Some(<<"3", "/", "7">>)]

\* What a field of a document may hold instead: nothing, or another content.
Alternatives(f) ==
    {None} \cup
    CASE f = "title" -> {Some("Title B")}
      [] f = "author" -> {Some([text |-> "Jane", href |-> None])}
      [] f \in {"rating", "warning", "category", "fandom", "relationship",
                "character", "freeform"} -> {Some(<<>>)}
      [] f = "words" -> {Some(<<"a", "b", "c">>), Some(<<"+", "7">>), Some(<<>>)}
      [] f = "chapters" -> {Some(<<"7", "/", "3">>), Some(<<"5", "/">>),
                            Some(<<"5">>), Some(<<"3", "/", "7", "a">>),
                            Some(<<"9", "9", "9", "9", "9", "/", "1">>)}
      [] OTHER -> {}

\* str::replace(",", "")
RECURSIVE StripCommas(_)
StripCommas(s) ==
    IF s = <<>> THEN <<>>
    ELSE IF Head(s) = "," THEN StripCommas(Tail(s))
    ELSE <<Head(s)>> \o StripCommas(Tail(s))

\* str::parse::<u64>: an optional "+", then one or more digits.  The largest u64
\* is beyond the numbers of the model, whose documents hold at most six digits,
\* so the overflow error is not reached.
ParseU64(s) ==
    LET t == IF s # <<>> /\ Head(s) = "+" THEN Tail(s) ELSE s
    IN  IF t = <<>> \/ (\E i \in 1..Len(t) : ~IsDigit(t[i])) THEN Err("IntError")
        ELSE Ok(DigitsValue(t))

\* The record built at the end of WorkMetadata::work.
WorkRecord(id, redirect_url, d, words, ch) ==
    [id |-> id,
     redirect_url |-> redirect_url,
     title |-> Get(d["title"]),
     author |-> Get(d["author"]).text,
     author_url |-> Get(Get(d["author"]).href),
     published_date |-> Get(d["published"]),
     fandoms |-> Get(d["fandom"]),
     warnings |-> Get(d["warning"]),
     relationships |-> Get(d["relationship"]),
     characters |-> Get(d["character"]),
     tags |-> Get(d["freeform"]),
     words |-> words,
     chapter |-> ch[1],
     total_chapters |-> ch[2]]

\* A plausible slip: the chapters field is optional, and defaults to 1/?.
workOfDocument_laxChapters(id, redirect_url, d) ==
    IF \E f \in Fields \ {"chapters"} : d[f] = None THEN Err("WorkError")
    ELSE IF Get(d["author"]).href = None THEN Err("WorkError")
    ELSE IF Get(d["rating"]) = <<>> \/ Get(d["category"]) = <<>> THEN Err("WorkError")
    ELSE LET w == ParseU64(StripCommas(Get(d["words"])))
         IN  IF ~w.ok THEN w
             ELSE IF d["chapters"] = None
                  THEN Ok(WorkRecord(id, redirect_url, d, w.value, <<1, None>>))
                  ELSE LET c == parseChapters(Get(d["chapters"]))
                       IN  IF ~c.ok THEN c
                           ELSE Ok(WorkRecord(id, redirect_url, d, w.value, c.value))

\* WorkMetadata::work from the parsed document on, in the order of the code:
\* each `?` returns the first error met.
workOfDocument(id, redirect_url, d) ==
    IF d["meta"] = None THEN Err("WorkError")
    ELSE IF d["stats"] = None THEN Err("WorkError")
    ELSE IF d["title"] = None THEN Err("WorkError")
    ELSE IF d["author"] = None THEN Err("WorkError")
    ELSE IF Get(d["author"]).href = None THEN Err("WorkError")
    ELSE IF d["rating"] = None \/ Get(d["rating"]) = <<>> THEN Err("WorkError")
    ELSE IF d["warning"] = None THEN Err("WorkError")
    ELSE IF d["category"] = None \/ Get(d["category"]) = <<>> THEN Err("WorkError")
    ELSE IF d["fandom"] = None THEN Err("WorkError")
    ELSE IF d["relationship"] = None THEN Err("WorkError")
    ELSE IF d["character"] = None THEN Err("WorkError")
    ELSE IF d["freeform"] = None THEN Err("WorkError")
    ELSE IF d["published"] = None THEN Err("WorkError")
    ELSE IF d["words"] = None THEN Err("WorkError")
    ELSE LET w == ParseU64(StripCommas(Get(d["words"])))
         IN  IF ~w.ok THEN w
             ELSE IF d["chapters"] = None THEN Err("WorkError")
             ELSE LET c == parseChapters(Get(d["chapters"]))
                  IN  IF ~c.ok THEN c
                      ELSE Ok(WorkRecord(id, redirect_url, d, w.value, c.value))

\* WorkMetadata::work: the fetch (a transport failure is the RequestError), then
\* the extraction from the document fetched.
work(id, redirect_url, fetch) ==
    IF ~fetch.ok THEN Err("RequestError")
    ELSE workOfDocument(id, redirect_url, fetch.value)

\* format!("https://archiveofourown.org/works/{}/{}", id, path.unwrap_or(""))
WorkUrl(id, path) ==
    <<"https://archiveofourown.org/works/", id, "/", IF path = None THEN "" ELSE Get(path)>>

(***************************************************************************)
(* The extraction on its own: fields of the well-formed document are       *)
(* altered, at most MaxDefects of them, and the document is extracted.     *)
(***************************************************************************)
InitExtract ==
    /\ doc = GoodDoc
    /\ defects = 0
    /\ extracted = None
    /\ ServeIdle /\ ParserIdle /\ EmbedIdle

Alter(f, v) ==
    /\ extracted = None
    /\ defects < MaxDefects
    /\ doc[f] = GoodDoc[f]
    /\ doc' = [doc EXCEPT ![f] = v]
    /\ defects' = defects + 1
    /\ UNCHANGED <<extracted, serveVars, parserVars, embedVars>>

Extract(id) ==
    /\ extracted = None
    /\ extracted' = Some(work(id, WorkUrl(id, None), Ok(doc)))
    /\ UNCHANGED <<doc, defects, serveVars, parserVars, embedVars>>

NextExtract ==
    \/ \E f \in Fields : \E v \in Alternatives(f) : Alter(f, v)
    \/ \E id \in Ids : Extract(id)

SpecExtract == InitExtract /\ [][NextExtract]_vars


\* C7 as stated: every WorkMetadata the extraction produces has
\* chapter <= total_chapters whenever total_chapters is present.
C7_ChapterAtMostTotal ==
    (IsSome(extracted) /\ Get(extracted).ok) =>
        LET m == Get(extracted).value
        IN  IsSome(m.total_chapters) => m.chapter <= Get(m.total_chapters)

\* The structural queries C8 lists as required: the metadata block, the stats
\* block, title, author node, author link attribute, published date, words,
\* chapters.
RequiredQueries == {"meta", "stats", "title", "author", "published", "words", "chapters"}

QueryMissing(d) ==
    \/ \E f \in RequiredQueries : d[f] = None
    \/ IsSome(d["author"]) /\ Get(d["author"]).href = None

\* The words text is a number once its commas are gone.
WordsNumeric(d) ==
    LET t == StripCommas(Get(d["words"]))
        u == IF t # <<>> /\ Head(t) = "+" THEN Tail(t) ELSE t
    IN  u # <<>> /\ \A i \in 1..Len(u) : IsDigit(u[i])

FoundAndParsed(d) ==
    /\ ~QueryMissing(d)
    /\ WordsNumeric(d)
    /\ Grammatical(Get(d["chapters"])) /\ FitsU16(Get(d["chapters"]))

WordsFailFirst(d) ==
    /\ d["chapters"] = None
    /\ \A f \in Fields \ {"chapters"} : IsSome(d[f])
    /\ IsSome(Get(d["author"]).href)
    /\ Get(d["rating"]) # <<>> /\ Get(d["category"]) # <<>>
    /\ ~WordsNumeric(d)

---------------------------------------------------------------------------
(***************************************************************************)
(* The Response Composer (meta.rs, From<WorkMetadata> for WorkTemplate and *)
(* WorkTemplate::render_html) and the router (main.rs, main).              *)
(*                                                                         *)
(* A URL is a record of its base, its path (the sequence of its segments)  *)
(* and its query (a sequence of name-value pairs).  A text written into a  *)
(* URL is a sequence of tokens: a decimal digit each for a number, the     *)
(* whole string for a text the code only copies.                           *)
(***************************************************************************)
DigitChar(n) ==
    CASE n = 0 -> "0" [] n = 1 -> "1" [] n = 2 -> "2" [] n = 3 -> "3"
      [] n = 4 -> "4" [] n = 5 -> "5" [] n = 6 -> "6" [] n = 7 -> "7"
      [] n = 8 -> "8" [] n = 9 -> "9"

\* to_string of an unsigned integer: its decimal digits.
RECURSIVE Decimal(_)
Decimal(n) ==
    IF n < 10 THEN <<DigitChar(n)>> ELSE Decimal(n \div 10) \o <<DigitChar(n % 10)>>

\* An opaque string as a text.
Text(str) == <<str>>

\* serde_urlencoded's encoding of one value of the query (form encoding): a
\* space becomes "+", a "?" becomes "%3F"; letters, digits and "-" stay.
FormEncode(text) ==
    [i \in 1..Len(text) |->
        CASE text[i] = "Jane Doe" -> "Jane+Doe"
          [] text[i] = "?" -> "%3F"
          [] OTHER -> text[i]]

\* urlencoding::encode (percent encoding): a space becomes "%20", a "?" "%3F".
PercentEncode(text) ==
    [i \in 1..Len(text) |->
        CASE text[i] = "Jane Doe" -> "Jane%20Doe"
          [] text[i] = "?" -> "%3F"
          [] OTHER -> text[i]]

\* The percent decoding the Path extractor applies to a segment: a "+" stays.
PercentDecode(text) ==
    [i \in 1..Len(text) |->
        CASE text[i] = "Jane%20Doe" -> "Jane Doe"
          [] text[i] = "%3F" -> "?"
          [] OTHER -> text[i]]

\* env::var("HOST"), or its default.
Host == "http://localhost:3000"

\* The EmbedRequest built in From<WorkMetadata>: total_chapters is the total's
\* decimal text, or "?" when there is none.
EmbedRequestOf(w) ==
    [id |-> w.id,
     author |-> Text(w.author),
     words |-> w.words,
     chapters |-> w.chapter,
     total_chapters |-> IF IsSome(w.total_chapters) THEN Decimal(Get(w.total_chapters))
                        ELSE Text("?"),
     date |-> Text(w.published_date)]

\* The URL of the route /oembed/:id/:author/:words/:chapters/:total_chapters/:date
\* for the fields of an EmbedRequest, each percent-encoded into its segment.
RouteUrlOf(e) ==
    [base |-> Host,
     path |-> <<Text("oembed"), Decimal(e.id), PercentEncode(e.author),
                Decimal(e.words), Decimal(e.chapters),
                PercentEncode(e.total_chapters), PercentEncode(e.date)>>,
     query |-> <<>>]

\* format!("{}/oembed?{}", HOST, serde_urlencoded::to_string(embed_request)):
\* the path is /oembed, the fields are the query.
EmbedUrlOf(e) ==
    [base |-> Host,
     path |-> <<Text("oembed")>>,
     query |-> << <<"id", FormEncode(Decimal(e.id))>>,
                  <<"author", FormEncode(e.author)>>,
                  <<"words", FormEncode(Decimal(e.words))>>,
                  <<"chapters", FormEncode(Decimal(e.chapters))>>,
                  <<"total_chapters", FormEncode(e.total_chapters)>>,
                  <<"date", FormEncode(e.date)>> >>]

\* join_quoted: the strings, with ", " between them.
RECURSIVE join_quoted(_)
join_quoted(strings) ==
    IF strings = <<>> THEN <<>>
    ELSE IF Len(strings) = 1 THEN strings
    ELSE <<Head(strings), ", ">> \o join_quoted(Tail(strings))

\* From<WorkMetadata> for WorkTemplate.
WorkTemplateFrom(w) ==
    [id |-> w.id,
     redirect_url |-> w.redirect_url,
     title |-> w.title,
     author |-> w.author,
     author_url |-> w.author_url,
     description |-> join_quoted(w.warnings) \o <<"\n">> \o join_quoted(w.characters)
                     \o <<"\n">> \o join_quoted(w.tags),
     embed_url |-> EmbedUrlOf(EmbedRequestOf(w))]

\* What the templating engine and the minifier, both external, may do with a
\* template: succeed, fail to render, or produce bytes that are no UTF-8 text.
RenderOutcomes == {"ok", "template", "utf8"}

\* WorkTemplate::render_html: render, minify, and take the bytes as text.
render_html(template, ro) ==
    IF ro = "template" THEN Err("TemplatingError")
    ELSE IF ro = "utf8" THEN Err("Minify")
    ELSE Ok([minified |-> [rendered |-> template]])

\* NormalizePathLayer::trim_trailing_slash: a path that ends in "/" (a last
\* segment that is empty) is routed as the path without it.
TrimTrailingSlash(path) ==
    IF path # <<>> /\ path[Len(path)] = <<>> THEN SubSeq(path, 1, Len(path) - 1)
    ELSE path

\* Path<EmbedRequest>: the six parameters of the route, percent-decoded; id and
\* words are read as u64, chapters as u16; a parameter that does not parse is
\* the extractor's rejection.
EmbedPath(path) ==
    LET id == ParseU64(PercentDecode(path[2]))
        words == ParseU64(PercentDecode(path[4]))
        ch == ParseU64(PercentDecode(path[5]))
    IN  IF ~id.ok \/ ~words.ok \/ ~ch.ok THEN Err("PathRejection")
        ELSE IF ch.value > U16Max THEN Err("PathRejection")
        ELSE Ok([id |-> id.value,
                 author |-> PercentDecode(path[3]),
                 words |-> words.value,
                 chapters |-> ch.value,
                 total_chapters |-> PercentDecode(path[6]),
                 date |-> PercentDecode(path[7])])

\* The Router of main: /works/:id/*path, /works/:id, the oembed route of six
\* parameters, and the fallback.  A parameter matches one segment that is not
\* empty.
Dispatch(url) ==
    LET path == TrimTrailingSlash(url.path)
        n == Len(path)
    IN  IF n >= 2 /\ path[1] = Text("works") /\ path[2] # <<>>
        THEN [handler |-> "work_response", args |-> Err("NotAnEmbed")]
        ELSE IF /\ n = 7
                /\ path[1] = Text("oembed")
                /\ \A i \in 2..7 : path[i] # <<>>
        THEN [handler |-> "embed_response", args |-> EmbedPath(path)]
        ELSE [handler |-> "ao3_redirect", args |-> Err("NotAnEmbed")]

(***************************************************************************)
(* The embed descriptor on its own: a WorkMetadata is composed into a      *)
(* preview, and the embed URL of the preview is requested from the service;*)
(* or a client requests the oembed route directly.                         *)
(***************************************************************************)
Authors == {"Jane", "Jane Doe"}
WordCounts == {0, 12345}
ChapterPairs == {<<1, None>>, <<3, Some(7)>>, <<7, Some(7)>>}

MetadataOf(id, author, words, ch) ==
    [WorkRecord(id, WorkUrl(id, None), GoodDoc, words, ch) EXCEPT !.author = author]

InitEmbed ==
    /\ emeta = None
    /\ embedUrl = None
    /\ dispatched = None
    /\ ServeIdle /\ ParserIdle /\ ExtractIdle

\* work_response, from `let template: WorkTemplate = work.into()` on: the
\* preview of a WorkMetadata carries its embed URL.
Compose(w) ==
    /\ emeta = None
    /\ emeta' = Some(w)
    /\ embedUrl' = Some(WorkTemplateFrom(w).embed_url)
    /\ UNCHANGED <<dispatched, serveVars, parserVars, extractVars>>

\* A client that knows the route requests it with the fields of a WorkMetadata.
RequestRoute(w, slash) ==
    /\ emeta = None
    /\ emeta' = Some(w)
    /\ embedUrl' = Some([RouteUrlOf(EmbedRequestOf(w)) EXCEPT
                            !.path = IF slash THEN @ \o << <<>> >> ELSE @])
    /\ UNCHANGED <<dispatched, serveVars, parserVars, extractVars>>

\* The service receives the request for the URL and routes it.
Route ==
    /\ IsSome(embedUrl)
    /\ dispatched = None
    /\ dispatched' = Some(Dispatch(Get(embedUrl)))
    /\ UNCHANGED <<emeta, embedUrl, serveVars, parserVars, extractVars>>

NextEmbed ==
    \/ \E id \in Ids, a \in Authors, w \in WordCounts, ch \in ChapterPairs :
          Compose(MetadataOf(id, a, w, ch))
    \/ \E id \in Ids, a \in Authors, w \in WordCounts, ch \in ChapterPairs :
          \E slash \in BOOLEAN : RequestRoute(MetadataOf(id, a, w, ch), slash)
    \/ Route

SpecEmbed == InitEmbed /\ [][NextEmbed]_vars

\* The embed URL of the preview is the URL requested.
ComposedUrlRequested ==
    /\ IsSome(emeta) /\ IsSome(dispatched)
    /\ embedUrl = Some(WorkTemplateFrom(Get(emeta)).embed_url)

\* C10 as stated: the embed URL put into a preview is dispatched by the router
\* to embed_response, with the id, author, words, chapters, total-chapters and
\* date of the WorkMetadata, and not to the fallback redirect.
C10_EmbedUrlReachesEmbedResponse ==
    ComposedUrlRequested =>
        /\ Get(dispatched).handler = "embed_response"
        /\ Get(dispatched).args = Ok(EmbedRequestOf(Get(emeta)))

\* The route itself works: a URL in the shape of the route reaches
\* embed_response with the fields it was built from.
RouteShapeReachesEmbedResponse ==
    (IsSome(dispatched) /\ ~ComposedUrlRequested) =>
        /\ Get(dispatched).handler = "embed_response"
        /\ Get(dispatched).args = Ok(EmbedRequestOf(Get(emeta)))


---------------------------------------------------------------------------
(***************************************************************************)
(* The serving gate (main.rs, work_response) over the shared cache.        *)
(*                                                                         *)
(* Each request is handled by a task of its own.  A task runs from one     *)
(* suspension point to the next in one step: the handler suspends at the   *)
(* fetch (reqwest::get(..).await, .text().await) and at the insert into    *)
(* the cache (work_cache.insert(..).await); everything else is             *)
(* synchronous.  A task may be dropped at a suspension point, when its     *)
(* caller disconnects.                                                     *)
(***************************************************************************)
Tasks == 1..NumTasks

\* The trailing path of a request: /works/:id has none.
Paths == {None, Some("chapters/1")}

\* The requests made of the service: /works/1 and /works/2/chapters/1.
PathsOf(id) == IF id = 1 THEN {None} ELSE {Some("chapters/1")}

\* What the transport may return for a fetch: a failure, or a document (the
\* work as it is, the work after an edit of its title, a page whose words
\* field is no number).
Fetches == {"failure", "work", "work edited", "words not a number"}

Fetched(f) ==
    CASE f = "failure" -> Err("Transport")
      [] f = "work" -> Ok(GoodDoc)
      [] f = "work edited" -> Ok([GoodDoc EXCEPT !["title"] = Some("Title B")])
      [] f = "words not a number" -> Ok([GoodDoc EXCEPT !["words"] = Some(<<"a", "b", "c">>)])

\* Redirect::temporary(url)
Redirect(url) == [kind |-> "redirect", status |-> 307, location |-> Some(url), body |-> None]

\* Html(html).into_response()
HtmlResponse(html) == [kind |-> "html", status |-> 200, location |-> None, body |-> Some(html)]

\* A plausible slip: the path is left out of the redirect.
HumanResponse_noPath(id, path) == Redirect(WorkUrl(id, None))

\* The response to a caller that is not a bot.
HumanResponse(id, path) == Redirect(WorkUrl(id, path))

\* A plausible slip: a failure to render is answered with an error status.
RenderResponse_errorStatus(id, path, w, ro) ==
    LET html == render_html(WorkTemplateFrom(w), ro)
    IN  IF html.ok THEN HtmlResponse(html.value)
        ELSE [kind |-> "error", status |-> 500, location |-> None, body |-> None]

\* work_response from `let template: WorkTemplate = work.into()` to its end.
RenderResponse(id, path, w, ro) ==
    LET html == render_html(WorkTemplateFrom(w), ro)
    IN  IF html.ok THEN HtmlResponse(html.value) ELSE Redirect(WorkUrl(id, path))

\* A plausible slip: the lookup is made under another key.
CacheGet_alwaysMiss(c, id) == None

\* work_cache.get(&id)
CacheGet(c, id) == c[id]

\* work_cache.insert(id, work): the value under id is replaced.
Insert(c, id, w) == [c EXCEPT ![id] = Some(w)]

\* A plausible slip: a failed fetch drops the entry of the id.
CacheAfterFetch_invalidateOnFailure(c, id, r) ==
    IF r.ok THEN Insert(c, id, r.value) ELSE [c EXCEPT ![id] = None]

\* A plausible slip: the insert is made before the result is looked at, and a
\* failure leaves a record with nothing in it.
CacheAfterFetch_cacheFailures(c, id, r) ==
    IF r.ok THEN Insert(c, id, r.value) ELSE Insert(c, id, [id |-> id])

\* A plausible slip: the first write wins (an entry is inserted only if absent).
CacheAfterFetch_putIfAbsent(c, id, r) ==
    IF r.ok /\ c[id] = None THEN Insert(c, id, r.value) ELSE c

\* The cache after WorkMetadata::work returned r: Ok(work) is inserted, an
\* error leaves the cache as it is.
CacheAfterFetch(c, id, r) ==
    IF r.ok THEN Insert(c, id, r.value) ELSE c

Init ==
    /\ cache = [k \in Ids |-> None]
    /\ pc = [t \in Tasks |-> "idle"]
    /\ req = [t \in Tasks |-> None]
    /\ held = [t \in Tasks |-> None]
    /\ resp = [t \in Tasks |-> None]
    /\ fetchIn = [t \in Tasks |-> None]
    /\ rendered = [t \in Tasks |-> None]
    /\ fetched = [t \in Tasks |-> FALSE]
    /\ looked = [t \in Tasks |-> FALSE]
    /\ startedAfter = [t \in Tasks |-> {}]
    /\ gen = [k \in Ids |-> 0]
    /\ genAtStart = [t \in Tasks |-> 0]
    /\ genAtGet = [t \in Tasks |-> 0]
    /\ writers = [k \in Ids |-> <<>>]
    /\ ParserIdle /\ ExtractIdle /\ EmbedIdle

Responded == {t \in Tasks : pc[t] = "done"}

\* The request of task t arrives: what every start of the handler records.
\* The tasks are numbered in the order in which their requests arrive.
Start(t, id, path, bot) ==
    /\ pc[t] = "idle"
    /\ \A u \in Tasks : u < t => pc[u] # "idle"
    /\ req' = [req EXCEPT ![t] = Some([id |-> id, path |-> path, bot |-> bot])]
    /\ startedAfter' = [startedAfter EXCEPT ![t] = Responded]
    /\ genAtStart' = [genAtStart EXCEPT ![t] = gen[id]]

\* A caller that is not a bot: the redirect, and nothing else.
ReceiveHuman(t, id, path) ==
    /\ Start(t, id, path, FALSE)
    /\ resp' = [resp EXCEPT ![t] = Some(HumanResponse(id, path))]
    /\ pc' = [pc EXCEPT ![t] = "done"]
    /\ UNCHANGED <<cache, held, fetchIn, rendered, fetched, looked, gen, genAtGet,
                   writers, parserVars, extractVars, embedVars>>

\* A bot, and the id is in the cache: the cached metadata is rendered and the
\* response sent, all without suspending.
ReceiveBotHit(t, id, path, ro) ==
    /\ Start(t, id, path, TRUE)
    /\ IsSome(CacheGet(cache, id))
    /\ looked' = [looked EXCEPT ![t] = TRUE]
    /\ held' = [held EXCEPT ![t] = CacheGet(cache, id)]
    /\ genAtGet' = [genAtGet EXCEPT ![t] = gen[id]]
    /\ rendered' = [rendered EXCEPT ![t] =
                      Some(render_html(WorkTemplateFrom(Get(CacheGet(cache, id))), ro).ok)]
    /\ resp' = [resp EXCEPT ![t] = Some(RenderResponse(id, path, Get(CacheGet(cache, id)), ro))]
    /\ pc' = [pc EXCEPT ![t] = "done"]
    /\ UNCHANGED <<cache, fetchIn, fetched, gen, writers,
                   parserVars, extractVars, embedVars>>

\* A bot, and the id is not in the cache: WorkMetadata::work is called and
\* suspends at the fetch.
ReceiveBotMiss(t, id, path) ==
    /\ Start(t, id, path, TRUE)
    /\ CacheGet(cache, id) = None
    /\ looked' = [looked EXCEPT ![t] = TRUE]
    /\ fetched' = [fetched EXCEPT ![t] = TRUE]
    /\ pc' = [pc EXCEPT ![t] = "fetching"]
    /\ UNCHANGED <<cache, held, resp, fetchIn, rendered, gen, genAtGet, writers,
                   parserVars, extractVars, embedVars>>

\* The fetch of task t returns Fetched(f); the document is extracted.  A success is
\* inserted into the cache, where the task suspends; a failure is answered
\* with the redirect.
FetchReturn(t, f) ==
    /\ pc[t] = "fetching"
    /\ LET id == Get(req[t]).id
           path == Get(req[t]).path
           r == work(id, WorkUrl(id, path), Fetched(f))
       IN  /\ fetchIn' = [fetchIn EXCEPT ![t] = Some(f)]
           /\ cache' = CacheAfterFetch(cache, id, r)
           /\ IF r.ok
              THEN /\ held' = [held EXCEPT ![t] = Some(r.value)]
                   /\ genAtGet' = [genAtGet EXCEPT ![t] = gen[id]]
                   /\ writers' = [writers EXCEPT ![id] = Append(@, t)]
                   /\ pc' = [pc EXCEPT ![t] = "inserting"]
                   /\ resp' = resp
              ELSE /\ resp' = [resp EXCEPT ![t] = Some(Redirect(WorkUrl(id, path)))]
                   /\ pc' = [pc EXCEPT ![t] = "done"]
                   /\ UNCHANGED <<held, genAtGet, writers>>
    /\ UNCHANGED <<req, rendered, fetched, looked, startedAfter, gen, genAtStart,
                   parserVars, extractVars, embedVars>>

\* The insert of task t has completed: the metadata is rendered and the
\* response sent.
Finish(t, ro) ==
    /\ pc[t] = "inserting"
    /\ rendered' = [rendered EXCEPT ![t] = Some(render_html(WorkTemplateFrom(Get(held[t])), ro).ok)]
    /\ resp' = [resp EXCEPT ![t] =
                  Some(RenderResponse(Get(req[t]).id, Get(req[t]).path, Get(held[t]), ro))]
    /\ pc' = [pc EXCEPT ![t] = "done"]
    /\ UNCHANGED <<cache, req, held, fetchIn, fetched, looked, startedAfter, gen,
                   genAtStart, genAtGet, writers, parserVars, extractVars, embedVars>>

\* The caller of task t disconnects while the task is suspended: the task is
\* dropped where it is, and what it held with it.
Abandon(t) ==
    /\ pc[t] \in {"fetching", "inserting"}
    /\ pc' = [pc EXCEPT ![t] = "abandoned"]
    /\ held' = [held EXCEPT ![t] = None]
    /\ UNCHANGED <<cache, req, resp, fetchIn, rendered, fetched, looked,
                   startedAfter, gen, genAtStart, genAtGet, writers,
                   parserVars, extractVars, embedVars>>

\* The cache (Cache::new(100)) evicts the entry of k, to make room for the
\* entries of identifiers outside Ids.
Evict(k) ==
    /\ IsSome(cache[k])
    /\ gen[1] + gen[2] < MaxEvictions
    /\ cache' = [cache EXCEPT ![k] = None]
    /\ gen' = [gen EXCEPT ![k] = @ + 1]
    /\ UNCHANGED <<pc, req, held, resp, fetchIn, rendered, fetched, looked,
                   startedAfter, genAtStart, genAtGet, writers,
                   parserVars, extractVars, embedVars>>

Next ==
    \/ \E t \in Tasks, id \in Ids : \E path \in PathsOf(id) : ReceiveHuman(t, id, path)
    \/ \E t \in Tasks, id \in Ids, ro \in RenderOutcomes : \E path \in PathsOf(id) :
          ReceiveBotHit(t, id, path, ro)
    \/ \E t \in Tasks, id \in Ids : \E path \in PathsOf(id) : ReceiveBotMiss(t, id, path)
    \/ \E t \in Tasks, f \in Fetches : FetchReturn(t, f)
    \/ \E t \in Tasks, ro \in RenderOutcomes : Finish(t, ro)
    \/ \E t \in Tasks : Abandon(t)
    \/ \E k \in Ids : Evict(k)

Spec == Init /\ [][Next]_vars


---------------------------------------------------------------------------
(***************************************************************************)
(* The claims about the serving gate.                                      *)
(***************************************************************************)
Started(t) == pc[t] # "idle"
IdOf(t) == Get(req[t]).id
PathOf(t) == Get(req[t]).path
IsBot(t) == Get(req[t]).bot

\* The result of WorkMetadata::work for each request and each return of the
\* transport.
Extraction ==
    [k \in Ids |-> [p \in Paths |-> [f \in Fetches |->
        work(k, WorkUrl(k, p), Fetched(f))]]]

\* The fetch-and-extract of task t returned, and failed.
FetchFailed(t) ==
    /\ IsSome(fetchIn[t])
    /\ ~Extraction[IdOf(t)][PathOf(t)][Get(fetchIn[t])].ok

\* The metadata the fetch-and-extract of task t produced.
FetchValue(t) == Extraction[IdOf(t)][PathOf(t)][Get(fetchIn[t])].value

\* C1: a bot's request is answered with the redirect to
\* https://archiveofourown.org/works/{id}/{path} if and only if the fetch-and-
\* extract, the templating or the minification failed; in every other case with
\* the minified preview and status 200; never with an error status.
C1_BotRedirectIffFailure ==
    \A t \in Tasks :
        (pc[t] = "done" /\ IsBot(t)) =>
            IF FetchFailed(t) \/ rendered[t] = Some(FALSE)
            THEN resp[t] = Some(Redirect(WorkUrl(IdOf(t), PathOf(t))))
            ELSE /\ IsSome(held[t])
                 /\ Get(resp[t]).kind = "html"
                 /\ Get(resp[t]).status = 200
                 /\ Get(resp[t]).body =
                        Some([minified |-> [rendered |-> WorkTemplateFrom(Get(held[t]))]])

\* A bot was answered with the redirect because rendering failed, another (or
\* the same id again) with the preview.
C1_Witness ==
    \E t, u \in Tasks :
        /\ pc[t] = "done" /\ IsBot(t) /\ rendered[t] = Some(FALSE)
        /\ Get(resp[t]).kind = "redirect"
        /\ pc[u] = "done" /\ IsBot(u) /\ rendered[u] = Some(TRUE)
        /\ Get(resp[u]).kind = "html"

\* C2: a request from a caller that is not a bot is answered, whatever the id,
\* the path and the cache hold, with the redirect to
\* https://archiveofourown.org/works/{id}/{path}; handling it looks nothing up,
\* fetches nothing, extracts nothing and leaves the cache as it was.
C2_HumanRedirectOnly ==
    [][\A t \in Tasks :
          (pc[t] = "idle" /\ pc'[t] # "idle" /\ ~Get(req'[t]).bot) =>
              /\ pc'[t] = "done"
              /\ resp'[t] = Some(Redirect(WorkUrl(Get(req'[t]).id, Get(req'[t]).path)))
              /\ ~looked'[t] /\ ~fetched'[t]
              /\ held'[t] = None /\ fetchIn'[t] = None
              /\ cache' = cache]_vars

\* A human was redirected for an id that is in the cache, with a path.
C2_Witness ==
    \E t \in Tasks :
        /\ pc[t] = "done" /\ ~IsBot(t)
        /\ IsSome(cache[IdOf(t)])
        /\ IsSome(PathOf(t))
        /\ resp[t] = Some(Redirect(WorkUrl(IdOf(t), PathOf(t))))

\* Task second looked id k up after task first had returned with the metadata
\* of k, and k was not evicted between the moment first got the metadata and
\* that lookup.
InSequence(first, second, k) ==
    /\ first # second
    /\ Started(second) /\ IsBot(second) /\ IdOf(second) = k
    /\ first \in startedAfter[second]
    /\ IsBot(first) /\ IdOf(first) = k /\ IsSome(held[first])
    /\ genAtGet[first] = genAtStart[second]

\* No bot request for k other than those of a and b has arrived.
OnlyCalls(a, b, k) ==
    \A u \in Tasks \ {a, b} : Started(u) => ~(IsBot(u) /\ IdOf(u) = k)

\* C3: when getOrFetch(id) is called twice in sequence with no eviction of id
\* in between, the second call is a hit and fetches nothing; and when these are
\* the only two calls for the id, both return the same WorkMetadata and exactly
\* one fetch was made in total.
C3_CacheIdempotence ==
    \A first, second \in Tasks : \A k \in Ids :
        InSequence(first, second, k) =>
            /\ looked[second] /\ ~fetched[second]
            /\ IsSome(held[second])
            /\ OnlyCalls(first, second, k) =>
                  /\ held[second] = held[first]
                  /\ Cardinality({u \in Tasks : fetched[u] /\ IdOf(u) = k}) = 1

\* The first call fetched, the second was served from the cache.
C3_Witness ==
    \E first, second \in Tasks : \E k \in Ids :
        /\ InSequence(first, second, k)
        /\ OnlyCalls(first, second, k)
        /\ fetched[first]
        /\ pc[second] = "done" /\ Get(resp[second]).kind = "html"

\* C4: the step in which a fetch-and-extract fails inserts nothing (the cache
\* and the record of its writes are as before), and a bot request that arrives
\* after a failure for the same id, the id still uncached, is a miss that
\* fetches again.
C4_FailureNotCached ==
    [][\A t \in Tasks :
          /\ (pc[t] = "fetching" /\ pc'[t] = "done") =>
                /\ ~Extraction[IdOf(t)][PathOf(t)][Get(fetchIn'[t])].ok
                /\ cache' = cache
                /\ writers' = writers
          /\ ( /\ pc[t] = "idle" /\ pc'[t] # "idle" /\ Get(req'[t]).bot
               /\ cache[Get(req'[t]).id] = None
               /\ \E u \in startedAfter'[t] :
                     IsBot(u) /\ IdOf(u) = Get(req'[t]).id /\ FetchFailed(u) ) =>
                /\ pc'[t] = "fetching"
                /\ fetched'[t] /\ fetchIn'[t] = None ]_vars

\* A fetch failed, and the next request for the id fetched again, with success.
C4_Witness ==
    \E u, t \in Tasks :
        /\ Started(t) /\ u \in startedAfter[t]
        /\ IsBot(u) /\ IsBot(t) /\ IdOf(u) = IdOf(t)
        /\ FetchFailed(u) /\ cache[IdOf(u)] # None
        /\ fetched[t] /\ IsSome(fetchIn[t]) /\ ~FetchFailed(t)

Last(seq) == seq[Len(seq)]
InSeq(x, seq) == \E i \in 1..Len(seq) : seq[i] = x

\* C5: misses are not deduplicated: every task that found the id uncached made
\* a fetch of its own, every such fetch that succeeded wrote its result under
\* the id, whatever the other tasks were doing, and the entry of an id is the
\* value of the write that happened last.
C5_LastWriteWins ==
    /\ \A t \in Tasks :
          (Started(t) /\ IsBot(t) /\ looked[t] /\ ~fetched[t]) => pc[t] = "done"
    /\ \A t \in Tasks :
          (fetched[t] /\ IsSome(fetchIn[t]) /\ ~FetchFailed(t)) =>
              InSeq(t, writers[IdOf(t)])
    /\ \A k \in Ids :
          IsSome(cache[k]) =>
              /\ writers[k] # <<>>
              /\ cache[k] = Some(FetchValue(Last(writers[k])))

\* Two requests for the same id overlapped, both fetched, both wrote, with
\* different results, and the cache holds the later one.
C5_Witness ==
    \E a, b \in Tasks : \E k \in Ids :
        /\ a # b /\ pc[a] = "done" /\ pc[b] = "done"
        /\ IsBot(a) /\ IsBot(b) /\ IdOf(a) = k /\ IdOf(b) = k
        /\ a \notin startedAfter[b] /\ b \notin startedAfter[a]
        /\ writers[k] = <<a, b>>
        /\ held[a] # held[b]
        /\ cache[k] = held[b]

\* The numbers the extraction reads from a well-formed document.
WordsOf(d) ==
    LET t == StripCommas(Get(d["words"]))
    IN  DigitsValue(IF Head(t) = "+" THEN Tail(t) ELSE t)

\* The documents the transport may return in which every field is found and
\* well-formed.
CompleteDocs == {Fetched(f).value : f \in {g \in Fetches : Fetched(g).ok /\ FoundAndParsed(Fetched(g).value)}}

\* The complete results of a successful fetch-and-extract for k: every field
\* of a complete document, with its numbers.
CompleteRecords ==
    [k \in Ids |->
        {WorkRecord(k, WorkUrl(k, p), d, WordsOf(d), GrammarValue(Get(d["chapters"]))) :
            p \in Paths, d \in CompleteDocs}]

\* C9: every entry of the cache, under key k, is a WorkMetadata of identifier k
\* that is the complete result of a successful fetch-and-extract for k,
\* whatever the interleaving and whichever tasks were abandoned.
C9_CacheConsistent ==
    \A k \in Ids :
        IsSome(cache[k]) =>
            /\ Get(cache[k]).id = k
            /\ Get(cache[k]) \in CompleteRecords[k]

\* The cache holds what a task wrote that was abandoned at the insert, while
\* another task for the same id is still fetching.
C9_Witness ==
    \E a, b \in Tasks :
        /\ pc[a] = "abandoned" /\ IsSome(fetchIn[a])
        /\ pc[b] = "fetching" /\ IdOf(b) = IdOf(a)
        /\ IsSome(cache[IdOf(a)])

=============================================================================
